---- MODULE Spec2Model ----
(***************************************************************************)
(* Parallel multi-start greedy clique search (Taskflow programs).          *)
(*                                                                         *)
(* Two layers are modelled:                                                *)
(*   - the Graph class and the greedy scan, step by step (ScanSpec,        *)
(*     FairScanSpec; ScenarioSpec runs the trials on three fixed graphs);  *)
(*   - one run of a driver program: the trial tasks, the executor's        *)
(*     workers and the mutex-guarded best_clique (Spec, FairSpec).         *)
(***************************************************************************)
EXTENDS Integers, Sequences, FiniteSets, TLC

\* ------------------------------------------------------------------ bounds
NumVertices == 3
MaxOrderLen == 3
NumTrials == 3
MaxWorkers == 2
MaxLines == 3
\* runs of the experiment loop
NumExperiments == 2

\* ------------------------------------------------------- program constants
\* "if (current_clique.size() > 45)" of the profiling programs
SizeThreshold == 45

Vertices == 0 .. (NumVertices - 1)
\* arguments add_edge may be called with: one below and one above the range
EdgeArgs == (0 - 1) .. NumVertices

VARIABLES
    adj_list_,      \* Graph::adj_list_ : vertex -> set of neighbours
    degrees,        \* the degree table main() fills before the run, <<>> if none
    scan_pc,        \* position of the single-scan program: build, scan, returned
    vertex_order,   \* the ordering handed to the greedy scan
    pos,            \* index of the next element of vertex_order to visit
    clique,         \* the scan's growing clique
    seed_vertex,    \* {} for a global scan, {s} for a neighbourhood trial
    strategy,       \* how vertex_order was built: given, degree, shuffle, ...
    degree_runs,    \* history: <<ordering, clique>> of the degree trials so far
    adj_checks,     \* history: number of is_adjacent calls the scan has made
    variant,        \* which driver program runs
    phase,          \* Idle, Dispatching, Running, Collected
    workers,        \* number of executor workers
    pc,             \* task -> position of the task's lambda
    trial_order,    \* task -> the ordering the task's lambda built for its scan
    trial_seed,     \* task -> {} for a full-graph trial, {s} for a neighbourhood trial
    local_clique,   \* task -> the clique the task computed
    best_clique,    \* the shared best clique
    mtx,            \* {} when free, {t} when task t holds it
    max_size,       \* std::atomic<size_t> max_size of the hybrid program
    max_size_seen,  \* the values max_size has held: a relaxed load may see any
    lock_order,     \* history: tasks in the order they acquired mtx
    best_owner,     \* history: who wrote best_clique last
    runs,           \* history: task -> number of times its lambda started
    seeded,         \* history: number of degree-order runs made by the driver
    reported,       \* {} before the driver reads best_clique.size(), then {size}
    load_pc,        \* position of load_dimacs_graph: open, header, edges, ...
    num_vertices,   \* the local num_vertices of load_dimacs_graph
    lines_read,     \* number of lines std::getline has handed over
    header,         \* history: what the file's header turned out to be
    data_lines,     \* history: the edge lines the second loop has read
    ignored,        \* history: the add_edge calls that inserted nothing
    cerr,           \* what has been written to std::cerr
    answer,         \* {} or the last query made of the graph and what came back
    gen_pc,         \* position of create_random_graph: none, loop, done
    gen_i,          \* the outer loop index i of create_random_graph
    gen_j,          \* the inner loop index j of create_random_graph
    edge_probability, \* the argument edge_probability, in percent
    draw_log,       \* history: <<i, j, draw>> of every dis(gen) call, in order
    trial_noise,    \* candidate -> the noise drawn for it by the last weighted sort
    on_worker,      \* history: task -> the worker thread that ran its lambda
    engine_of,      \* history: task -> the random engine its lambda drew from
    engine_inits,   \* history: number of std::mt19937 objects constructed
    experiment,     \* the loop index run of the experiment loop
    results         \* the vector results of the experiment loop

graphVars == <<adj_list_, degrees>>
scanVars == <<scan_pc, vertex_order, pos, clique, seed_vertex, strategy, degree_runs,
              adj_checks>>
trialVars == <<trial_order, trial_seed>>
runVars == <<variant, phase, workers, pc, trial_order, trial_seed, local_clique,
             best_clique, mtx,
             max_size, max_size_seen, lock_order, best_owner, runs, seeded,
             reported>>
loadVars == <<load_pc, num_vertices, lines_read, header, data_lines, ignored, cerr>>
queryVars == <<answer>>
genVars == <<gen_pc, gen_i, gen_j, edge_probability, draw_log>>
weightVars == <<trial_noise>>
rngVars == <<on_worker, engine_of, engine_inits>>
repVars == <<experiment, results>>
\* what the scan and the run of one driver leave alone
auxVars == <<loadVars, queryVars, genVars, weightVars, rngVars, repVars>>
vars == <<adj_list_, degrees, scan_pc, vertex_order, pos, clique, seed_vertex,
          strategy, degree_runs, adj_checks,
          variant, phase, workers, pc, trial_order, trial_seed, local_clique,
          best_clique, mtx,
          max_size, max_size_seen, lock_order, best_owner, runs, seeded,
          reported, load_pc, num_vertices, lines_read, header, data_lines, ignored,
          cerr, answer, gen_pc, gen_i, gen_j, edge_probability, draw_log, trial_noise,
          on_worker, engine_of, engine_inits, experiment, results>>

\* ------------------------------------------------------------ sequences
RECURSIVE Perms(_)
Perms(S) ==
    IF S = {} THEN {<<>>}
    ELSE UNION {{<<x>> \o p : p \in Perms(S \ {x})} : x \in S}

SeqsUpTo(S, n) == UNION {[1..k -> S] : k \in 0..n}

Range(s) == {s[i] : i \in 1..Len(s)}

MaxOf(S) == CHOOSE m \in S : \A x \in S : x <= m

\* ---------------------------------------------------------------- Graph
\* Graph(int vertices): num_vertices_ = vertices, adj_list_(vertices) all empty
new_graph(n) == [v \in 0 .. (n - 1) |-> {}]

EmptyGraph == new_graph(NumVertices)

\* num_vertices_ of the Graph object whose adjacency vector is adj
get_num_vertices(adj) == Cardinality(DOMAIN adj)

in_range(adj, u) == u >= 0 /\ u < get_num_vertices(adj)

\* an insertion into the second endpoint's set only
add_edge_second_only(adj, u, v) ==
    IF in_range(adj, u) /\ in_range(adj, v)
    THEN [adj EXCEPT ![v] = @ \cup {u}]
    ELSE adj

\* an insertion that takes the edge out again when it is already there
add_edge_toggle(adj, u, v) ==
    IF in_range(adj, u) /\ in_range(adj, v)
    THEN IF v \in adj[u]
         THEN [adj EXCEPT ![u] = @ \ {v}, ![v] = @ \ {u}]
         ELSE [adj EXCEPT ![u] = @ \cup {v}, ![v] = @ \cup {u}]
    ELSE adj

\* an insertion into the first endpoint's set only
add_edge_one_way(adj, u, v) ==
    IF in_range(adj, u) /\ in_range(adj, v)
    THEN [adj EXCEPT ![u] = @ \cup {v}]
    ELSE adj

add_edge(adj, u, v) ==
    IF in_range(adj, u) /\ in_range(adj, v)
    THEN [adj EXCEPT ![u] = @ \cup {v}, ![v] = @ \cup {u}]
    ELSE adj

\* a lookup that only finds neighbours with a smaller id
is_adjacent_smaller_id(adj, u, v) == v \in adj[u] /\ v < u

is_adjacent(adj, u, v) == v \in adj[u]

get_degree(adj, u) == IF in_range(adj, u) THEN Cardinality(adj[u]) ELSE 0

get_neighbors(adj, u) == IF in_range(adj, u) THEN adj[u] ELSE {}

\* a comparator that puts the larger id first among equal degrees
degree_pair_less_ties_descending(adj, a, b) ==
    \/ Cardinality(adj[a]) > Cardinality(adj[b])
    \/ Cardinality(adj[a]) = Cardinality(adj[b]) /\ a > b

\* a comparator that looks at the degree alone
degree_only_less(adj, a, b) == Cardinality(adj[a]) > Cardinality(adj[b])

\* std::sort over the pairs (-degree, id): degree descending, then id ascending
degree_pair_less(adj, a, b) ==
    \/ Cardinality(adj[a]) > Cardinality(adj[b])
    \/ Cardinality(adj[a]) = Cardinality(adj[b]) /\ a < b

get_vertices_sorted_by_degree(adj) ==
    SortSeq([i \in 1..get_num_vertices(adj) |-> i - 1],
            LAMBDA a, b : degree_pair_less(adj, a, b))

\* every arrangement std::sort may leave behind: no element is ahead of one
\* the comparator puts before it; elements the comparator does not separate
\* can come out either way
degree_sort_outcomes(adj) ==
    {p \in Perms(DOMAIN adj) :
        \A i \in 1..Len(p), j \in 1..Len(p) :
            i < j => ~ degree_pair_less(adj, p[j], p[i])}

\* the inner loop of the scan: u against every member, stopping at a miss
can_add_last_only(adj, c, u) ==
    Len(c) = 0 \/ is_adjacent(adj, u, c[Len(c)])

can_add(adj, c, u) == \A i \in 1..Len(c) : is_adjacent(adj, u, c[i])

\* a scan that backtracks: a rejected vertex takes the place of the last member
\* when it is adjacent to all the others
greedy_step_backtracking(adj, c, u) ==
    IF can_add(adj, c, u) THEN Append(c, u)
    ELSE IF Len(c) > 0 /\ can_add(adj, SubSeq(c, 1, Len(c) - 1), u)
         THEN Append(SubSeq(c, 1, Len(c) - 1), u)
         ELSE c

\* an inner loop that asks about every vertex of the graph
checks_made_all_vertices(adj, c, u) == get_num_vertices(adj)

\* the is_adjacent calls of one iteration: the inner loop asks about the
\* members in turn and breaks at the first one u is not adjacent to
checks_made(adj, c, u) ==
    IF can_add(adj, c, u) THEN Len(c)
    ELSE CHOOSE i \in 1..Len(c) :
             /\ ~ is_adjacent(adj, u, c[i])
             /\ \A k \in 1..(i - 1) : is_adjacent(adj, u, c[k])

\* one iteration of the outer loop
greedy_step(adj, c, u) == IF can_add(adj, c, u) THEN Append(c, u) ELSE c

RECURSIVE greedy_from(_, _, _, _)
greedy_from(adj, order, i, c) ==
    IF i > Len(order) THEN c
    ELSE greedy_from(adj, order, i + 1, greedy_step(adj, c, order[i]))

find_greedy_max_clique(adj, order) == greedy_from(adj, order, 1, <<>>)

\* find_greedy_clique_in_subset sorts the candidates with the comparator
\* degree(a) > degree(b); std::sort is not stable and the candidates come out
\* of an unordered_set, so any degree-non-increasing arrangement can result
subset_orders(adj, cands) ==
    {p \in Perms(cands) :
        \A i \in 1..(Len(p) - 1) :
            Cardinality(adj[p[i]]) >= Cardinality(adj[p[i + 1]])}

\* noise_dist(-50.0, 50.0): the two ends and the middle of the interval
NoiseValues == {0 - 50, 0, 50}

weighted_pair_greater(adj, noise, a, b) ==
    \/ Cardinality(adj[a]) + noise[a] > Cardinality(adj[b]) + noise[b]
    \/ /\ Cardinality(adj[a]) + noise[a] = Cardinality(adj[b]) + noise[b]
       /\ a > b

\* the candidates in some sequence, as get_neighbors hands them over
RECURSIVE AsSeq(_)
AsSeq(S) ==
    IF S = {} THEN <<>>
    ELSE LET x == CHOOSE y \in S : TRUE IN <<x>> \o AsSeq(S \ {x})

\* score = degree + noise, pairs (score, id) sorted in descending order
weighted_orders(adj, cands) ==
    {SortSeq(AsSeq(cands), LAMBDA a, b : weighted_pair_greater(adj, noise, a, b)) :
        noise \in [cands -> NoiseValues]}

\* degrees[i] = graph.get_degree(i) for every vertex, shifted by one position
degree_table_shifted(adj) == [v \in DOMAIN adj |-> get_degree(adj, v + 1)]

\* degrees[i] = graph.get_degree(i) for every vertex
degree_table(adj) == [v \in DOMAIN adj |-> get_degree(adj, v)]

\* the pairs sorted in ascending order
table_pair_less(deg, noise, a, b) ==
    \/ deg[a] + noise[a] < deg[b] + noise[b]
    \/ deg[a] + noise[a] = deg[b] + noise[b] /\ a < b

\* score = degrees[v] + noise read from the table, pairs sorted descending
table_pair_greater(deg, noise, a, b) ==
    \/ deg[a] + noise[a] > deg[b] + noise[b]
    \/ deg[a] + noise[a] = deg[b] + noise[b] /\ a > b

table_orders(deg, cands) ==
    {SortSeq(AsSeq(cands), LAMBDA a, b : table_pair_greater(deg, noise, a, b)) :
        noise \in [cands -> NoiseValues]}

\* the search order of one weighted sort, for the noise its draws returned
weighted_order(deg, noise, cands) ==
    SortSeq(AsSeq(cands), LAMBDA a, b : table_pair_greater(deg, noise, a, b))

\* ------------------------------------------------- the scan, step by step
\* no file is being read: the graph is built by direct calls
NoLoad ==
    /\ load_pc = "none"
    /\ num_vertices = 0
    /\ lines_read = 0
    /\ header = "none"
    /\ data_lines = {}
    /\ ignored = {}
    /\ cerr = {}

NoQuery == answer = {}

\* the graph is not being generated
NoGen ==
    /\ gen_pc = "none"
    /\ gen_i = 0
    /\ gen_j = 0
    /\ edge_probability = 0
    /\ draw_log = <<>>

NoWeights == trial_noise = <<>>

\* no task has run: no engine has been constructed
NoRng ==
    /\ on_worker = <<>>
    /\ engine_of = <<>>
    /\ engine_inits = 0

\* the first (or only) run of the driver
NoRepeat ==
    /\ experiment = 0
    /\ results = <<>>

NoRun ==
    /\ variant = "none"
    /\ phase = "Idle"
    /\ workers = 1
    /\ pc = <<>>
    /\ trial_order = <<>>
    /\ trial_seed = <<>>
    /\ local_clique = <<>>
    /\ best_clique = <<>>
    /\ mtx = {}
    /\ max_size = 0
    /\ max_size_seen = {0}
    /\ lock_order = <<>>
    /\ best_owner = {}
    /\ runs = <<>>
    /\ seeded = 0
    /\ reported = {}

ScanInit ==
    /\ adj_list_ = EmptyGraph
    /\ degrees = <<>>
    /\ scan_pc = "build"
    /\ vertex_order = <<>>
    /\ pos = 1
    /\ clique = <<>>
    /\ seed_vertex = {}
    /\ strategy = "none"
    /\ degree_runs = {}
    /\ adj_checks = 0
    /\ NoRun
    /\ NoLoad
    /\ NoQuery
    /\ NoGen
    /\ NoWeights
    /\ NoRng
    /\ NoRepeat

AddEdge(u, v) ==
    /\ scan_pc = "build"
    /\ adj_list_' = add_edge(adj_list_, u, v)
    /\ UNCHANGED <<auxVars, degrees, scanVars, runVars>>

\* a full-graph trial: find_greedy_max_clique(vertex_order) is entered
BeginScan ==
    /\ scan_pc = "build"
    /\ scan_pc' = "scan"
    /\ \E order \in SeqsUpTo(Vertices, MaxOrderLen) : vertex_order' = order
    /\ pos' = 1
    /\ clique' = <<>>
    /\ adj_checks' = 0
    /\ seed_vertex' = {}
    /\ strategy' = "given"
    /\ UNCHANGED <<auxVars, graphVars, degree_runs, runVars>>

\* the degree-descending trial: get_vertices_sorted_by_degree(), then the scan;
\* it can be run again on the graph once it has returned
BeginDegreeScan ==
    /\ scan_pc = "build" \/ (scan_pc = "returned" /\ strategy = "degree")
    /\ scan_pc' = "scan"
    /\ \E order \in degree_sort_outcomes(adj_list_) : vertex_order' = order
    /\ pos' = 1
    /\ clique' = <<>>
    /\ adj_checks' = 0
    /\ seed_vertex' = {}
    /\ strategy' = "degree"
    /\ UNCHANGED <<auxVars, graphVars, degree_runs, runVars>>

\* a shuffle that never moves the first element
BeginShuffleScanFirstFixed ==
    /\ scan_pc = "build"
    /\ scan_pc' = "scan"
    /\ \E order \in {o \in Perms(DOMAIN adj_list_) : o[1] = 0} :
           vertex_order' = order
    /\ pos' = 1
    /\ clique' = <<>>
    /\ adj_checks' = 0
    /\ seed_vertex' = {}
    /\ strategy' = "shuffle"
    /\ UNCHANGED <<auxVars, graphVars, degree_runs, runVars>>

\* the uniform-random trial: iota, std::shuffle, then the scan
BeginShuffleScan ==
    /\ scan_pc = "build"
    /\ scan_pc' = "scan"
    /\ \E order \in Perms(DOMAIN adj_list_) : vertex_order' = order
    /\ pos' = 1
    /\ clique' = <<>>
    /\ adj_checks' = 0
    /\ seed_vertex' = {}
    /\ strategy' = "shuffle"
    /\ UNCHANGED <<auxVars, graphVars, degree_runs, runVars>>

\* the weighted-noisy trial: all vertices by degree + noise, then the scan
BeginWeightedScan ==
    /\ scan_pc = "build"
    /\ scan_pc' = "scan"
    /\ \E order \in table_orders(degree_table(adj_list_), DOMAIN adj_list_) :
         vertex_order' = order
    /\ pos' = 1
    /\ clique' = <<>>
    /\ adj_checks' = 0
    /\ seed_vertex' = {}
    /\ strategy' = "weighted"
    /\ UNCHANGED <<auxVars, graphVars, degree_runs, runVars>>

\* a seeded trial whose candidates are all the vertices but the seed
BeginNeighbourhoodScanAllVertices ==
    /\ scan_pc = "build"
    /\ scan_pc' = "scan"
    /\ \E s \in DOMAIN adj_list_ :
         /\ seed_vertex' = {s}
         /\ \E order \in subset_orders(adj_list_, DOMAIN adj_list_ \ {s}) :
              vertex_order' = order
    /\ pos' = 1
    /\ clique' = <<>>
    /\ adj_checks' = 0
    /\ strategy' = "neighbourhood"
    /\ UNCHANGED <<auxVars, graphVars, degree_runs, runVars>>

\* a neighbourhood trial: the candidates are get_neighbors(seed)
BeginNeighbourhoodScan ==
    /\ scan_pc = "build"
    /\ scan_pc' = "scan"
    /\ \E s \in DOMAIN adj_list_ :
         /\ seed_vertex' = {s}
         /\ \E order \in subset_orders(adj_list_, get_neighbors(adj_list_, s))
                         \cup weighted_orders(adj_list_, get_neighbors(adj_list_, s)) :
              vertex_order' = order
    /\ pos' = 1
    /\ clique' = <<>>
    /\ adj_checks' = 0
    /\ strategy' = "neighbourhood"
    /\ UNCHANGED <<auxVars, graphVars, degree_runs, runVars>>

\* a scan that does not move on from a vertex it rejects
ScanStepStuckOnReject ==
    /\ scan_pc = "scan"
    /\ pos <= Len(vertex_order)
    /\ clique' = greedy_step(adj_list_, clique, vertex_order[pos])
    /\ adj_checks' = adj_checks + checks_made(adj_list_, clique, vertex_order[pos])
    /\ pos' = IF can_add(adj_list_, clique, vertex_order[pos]) THEN pos + 1 ELSE pos
    /\ UNCHANGED <<auxVars, graphVars, scan_pc, vertex_order, seed_vertex, strategy,
                   degree_runs, runVars>>

\* a scan that gives up at the first vertex it rejects
ScanStepUntilReject ==
    /\ scan_pc = "scan"
    /\ pos <= Len(vertex_order)
    /\ clique' = greedy_step(adj_list_, clique, vertex_order[pos])
    /\ adj_checks' = adj_checks + checks_made(adj_list_, clique, vertex_order[pos])
    /\ pos' = IF can_add(adj_list_, clique, vertex_order[pos])
              THEN pos + 1 ELSE Len(vertex_order) + 1
    /\ UNCHANGED <<auxVars, graphVars, scan_pc, vertex_order, seed_vertex, strategy,
                   degree_runs, runVars>>

ScanStep ==
    /\ scan_pc = "scan"
    /\ pos <= Len(vertex_order)
    /\ clique' = greedy_step(adj_list_, clique, vertex_order[pos])
    /\ adj_checks' = adj_checks + checks_made(adj_list_, clique, vertex_order[pos])
    /\ pos' = pos + 1
    /\ UNCHANGED <<auxVars, graphVars, scan_pc, vertex_order, seed_vertex, strategy,
                   degree_runs, runVars>>

\* a return that leaves the seed out of the clique
ScanReturnWithoutSeed ==
    /\ scan_pc = "scan"
    /\ pos > Len(vertex_order)
    /\ scan_pc' = "returned"
    /\ degree_runs' = IF strategy = "degree"
                      THEN degree_runs \cup {<<vertex_order, clique>>}
                      ELSE degree_runs
    /\ UNCHANGED <<auxVars, graphVars, vertex_order, pos, clique, seed_vertex, strategy,
                   adj_checks, runVars>>

\* the scan returns; a neighbourhood trial then does push_back(seed_vertex)
ScanReturn ==
    /\ scan_pc = "scan"
    /\ pos > Len(vertex_order)
    /\ scan_pc' = "returned"
    /\ clique' = IF seed_vertex = {} THEN clique
                 ELSE Append(clique, CHOOSE s \in seed_vertex : TRUE)
    /\ degree_runs' = IF strategy = "degree"
                      THEN degree_runs \cup {<<vertex_order, clique>>}
                      ELSE degree_runs
    /\ UNCHANGED <<auxVars, graphVars, vertex_order, pos, seed_vertex, strategy,
                   adj_checks, runVars>>

ScanNext ==
    \/ \E u \in EdgeArgs, v \in EdgeArgs : AddEdge(u, v)
    \/ BeginScan
    \/ BeginDegreeScan
    \/ BeginNeighbourhoodScan
    \/ ScanStep
    \/ ScanReturn

ScanSpec == ScanInit /\ [][ScanNext]_vars

\* the loop of the scan keeps running once it is entered
FairScanSpec == ScanSpec /\ WF_vars(ScanStep) /\ WF_vars(ScanReturn)

\* ------------------------------------------------ queries of the graph
\* int d = graph.get_degree(u): the call returns in every case
QueryDegree(u) ==
    /\ scan_pc = "build"
    /\ answer' = {[fn |-> "get_degree", arg |-> u, outcome |-> "returned",
                   degree |-> get_degree(adj_list_, u), neighbors |-> {}]}
    /\ UNCHANGED <<genVars, weightVars, rngVars, repVars, graphVars, scanVars, runVars, loadVars>>

\* std::vector<int> n = graph.get_neighbors(u): the call returns in every case
QueryNeighbors(u) ==
    /\ scan_pc = "build"
    /\ answer' = {[fn |-> "get_neighbors", arg |-> u, outcome |-> "returned",
                   degree |-> 0, neighbors |-> get_neighbors(adj_list_, u)]}
    /\ UNCHANGED <<genVars, weightVars, rngVars, repVars, graphVars, scanVars, runVars, loadVars>>

QueryNext ==
    \/ \E u \in EdgeArgs, v \in EdgeArgs : AddEdge(u, v)
    \/ \E u \in EdgeArgs : QueryDegree(u)
    \/ \E u \in EdgeArgs : QueryNeighbors(u)

QuerySpec == ScanInit /\ [][QueryNext]_vars

\* ------------------------------------------------------ one run of a driver
\* the driver programs, by what differs in how they schedule and aggregate:
\*   greedy      dataset_taskflow_greedy.cc (also _repeat, taskflow_greedy_mel.cc)
\*   weight      dataset_taskflow_greedy_weight.cc (also _weight_repeat)
\*   profiling   dataset_taskflow_greedy_profiling.cc, _weight_profiling.cc
\*   nbr_all     max_clique_neighborhood_parallel.cc
\*   nbr_random  max_clique_random_neighborhood.cc
\*   hybrid      dataset_taskflow_greedy_weight_neighborhood.cc
\*   test12      old_mycode/test12.cc
\*   test13      old_mycode/test13.cc
Variants ==
    {"greedy", "weight", "profiling", "nbr_all", "nbr_random", "hybrid", "test12",
     "test13"}

\* best_clique is seeded by a degree-order run of the driver itself
SeededVariants == {"test12", "test13"}
\* a comparison is made before the lock is taken
PreCheckVariants == {"profiling", "nbr_all", "nbr_random", "hybrid"}
\* the driver sorts best_clique in place when it prints it
SortingVariants == {"greedy", "weight", "nbr_all", "test12", "test13"}
\* main() precomputes the degree of every vertex and the trials read the table
DegreeTableVariants == {"weight", "hybrid"}

Driver == 0

\* the most tasks any of the programs emplaces
MaxTasks == IF NumTrials > NumVertices THEN NumTrials ELSE NumVertices

\* number of tasks the driver's loops emplace
task_count(v) ==
    CASE v = "greedy" -> 1 + (NumTrials - 1)
      [] v = "weight" -> 1 + (NumTrials - 1)
      [] v = "profiling" -> NumTrials
      [] v = "nbr_all" -> NumVertices
      [] v = "nbr_random" -> NumTrials
      [] v = "hybrid" -> NumTrials
      [] v = "test12" -> NumTrials - 1
      [] v = "test13" -> NumTrials

\* the ordering strategy of task t
task_kind(v, t) ==
    CASE v = "greedy" -> IF t = 1 THEN "degree" ELSE "shuffle"
      [] v = "weight" -> IF t = 1 THEN "degree" ELSE "weighted"
      [] v = "profiling" -> "shuffle"
      [] v = "nbr_all" -> "neighbourhood"
      [] v = "nbr_random" -> "neighbourhood"
      [] v = "hybrid" -> "neighbourhood"
      [] v = "test12" -> "shuffle"
      [] v = "test13" -> "shuffle"

degree_order_clique(adj) ==
    find_greedy_max_clique(adj, get_vertices_sorted_by_degree(adj))

\* iota + std::shuffle, then the scan
shuffle_cliques(adj) ==
    {find_greedy_max_clique(adj, p) : p \in Perms(Vertices)}

\* the seeds task t can take: its loop index, or a draw from [0, N)
task_seeds(v, t) == IF v = "nbr_all" THEN {t - 1} ELSE Vertices

neighbourhood_orders(v, adj, deg, s) ==
    IF v = "hybrid"
    THEN table_orders(deg, get_neighbors(adj, s))
    ELSE subset_orders(adj, get_neighbors(adj, s))

\* scan inside neighbors(seed), then push_back(seed)
neighbourhood_cliques(v, adj, deg, t) ==
    UNION {{Append(find_greedy_max_clique(adj, p), s) :
                p \in neighbourhood_orders(v, adj, deg, s)} : s \in task_seeds(v, t)}

\* the noisy degree order over all vertices, then the scan
weighted_cliques(adj, deg) ==
    {find_greedy_max_clique(adj, p) : p \in table_orders(deg, Vertices)}

\* every clique the lambda of task t can compute
trial_cliques(v, adj, deg, t) ==
    CASE task_kind(v, t) = "degree" -> {degree_order_clique(adj)}
      [] task_kind(v, t) = "shuffle" -> shuffle_cliques(adj)
      [] task_kind(v, t) = "weighted" -> weighted_cliques(adj, deg)
      [] task_kind(v, t) = "neighbourhood" -> neighbourhood_cliques(v, adj, deg, t)

\* the ordering (and seed) the lambda of task t can build before its scan
trial_inputs(v, adj, deg, t) ==
    CASE task_kind(v, t) = "degree" ->
            {[order |-> get_vertices_sorted_by_degree(adj), seed |-> {}]}
      [] task_kind(v, t) = "shuffle" ->
            {[order |-> p, seed |-> {}] : p \in Perms(Vertices)}
      [] task_kind(v, t) = "weighted" ->
            {[order |-> p, seed |-> {}] : p \in table_orders(deg, Vertices)}
      [] task_kind(v, t) = "neighbourhood" ->
            UNION {{[order |-> p, seed |-> {s}] : p \in neighbourhood_orders(v, adj, deg, s)} :
                      s \in task_seeds(v, t)}

\* a trial that goes on from the best clique found so far instead of an empty one
run_trial_from_best(adj, order, seed) ==
    IF seed = {} THEN greedy_from(adj, order, 1, best_clique)
    ELSE Append(greedy_from(adj, order, 1, best_clique), CHOOSE s \in seed : TRUE)

\* the scan over the trial's ordering; a neighbourhood trial then appends its seed
run_trial(adj, order, seed) ==
    IF seed = {} THEN find_greedy_max_clique(adj, order)
    ELSE Append(find_greedy_max_clique(adj, order), CHOOSE s \in seed : TRUE)

\* "candidate.size() > best_clique.size()" under the lock
improves_or_ties(c, b) == Len(c) >= Len(b)

improves_if_different(c, b) == Len(c) # Len(b)

improves(c, b) == Len(c) > Len(b)

\* std::mutex: lock() returns only when nobody holds it
mtx_always_free(m) == TRUE

mtx_free(m) == m = {}

all_done(p) == \A t \in DOMAIN p : p[t] = "done"

\* executor.run(taskflow).wait() returns when every task has finished
wait_returns_early(p) == TRUE

wait_returns(p) == all_done(p)

\* tasks occupying a worker thread
busy(p) == {t \in DOMAIN p : p[t] \notin {"ready", "done"}}

SortedClique(c) == SortSeq(c, LAMBDA a, b : a < b)

\* the graphs a run works on: add_edge over a set of pairs of distinct
\* vertices, as the generator makes them and as the loader makes them from
\* edge lines with two different ids
RECURSIVE build_graph(_, _)
build_graph(adj, E) ==
    IF E = {} THEN adj
    ELSE LET e == CHOOSE x \in E : TRUE
         IN build_graph(add_edge(adj, e[1], e[2]), E \ {e})

VertexPairs == {e \in Vertices \X Vertices : e[1] < e[2]}

RunGraphs == {build_graph(EmptyGraph, E) : E \in SUBSET VertexPairs}

NoScan ==
    /\ scan_pc = "none"
    /\ vertex_order = <<>>
    /\ pos = 1
    /\ clique = <<>>
    /\ seed_vertex = {}
    /\ strategy = "none"
    /\ degree_runs = {}
    /\ adj_checks = 0

Init ==
    /\ adj_list_ \in RunGraphs
    /\ NoScan
    /\ variant \in Variants
    /\ degrees = IF variant \in DegreeTableVariants THEN degree_table(adj_list_) ELSE <<>>
    /\ workers \in 1..MaxWorkers
    /\ phase = "Idle"
    /\ pc = <<>>
    /\ trial_order = <<>>
    /\ trial_seed = <<>>
    /\ local_clique = <<>>
    /\ best_clique = <<>>
    /\ mtx = {}
    /\ max_size = 0
    /\ max_size_seen = {0}
    /\ lock_order = <<>>
    /\ best_owner = {}
    /\ runs = <<>>
    /\ seeded = 0
    /\ reported = {}
    /\ NoLoad
    /\ NoQuery
    /\ NoGen
    /\ NoWeights
    /\ NoRng
    /\ NoRepeat

\* test12/test13: best_clique = find_greedy_max_clique(degree order), by the driver
SeedDegreeOrder ==
    /\ phase = "Idle"
    /\ variant \in SeededVariants
    /\ seeded = 0
    /\ best_clique' = degree_order_clique(adj_list_)
    /\ best_owner' = {Driver}
    /\ seeded' = seeded + 1
    /\ UNCHANGED <<auxVars, graphVars, scanVars, trialVars, variant, phase, workers, pc, local_clique,
                   mtx, max_size, max_size_seen, lock_order, runs, reported>>

\* the taskflow.emplace loops
Dispatch ==
    /\ phase = "Idle"
    /\ variant \in SeededVariants => seeded = 1
    /\ phase' = "Dispatching"
    /\ pc' = [t \in 1..task_count(variant) |-> "ready"]
    /\ trial_order' = [t \in 1..task_count(variant) |-> <<>>]
    /\ trial_seed' = [t \in 1..task_count(variant) |-> {}]
    /\ local_clique' = [t \in 1..task_count(variant) |-> <<>>]
    /\ runs' = [t \in 1..task_count(variant) |-> 0]
    /\ UNCHANGED <<auxVars, graphVars, scanVars, variant, workers, best_clique, mtx,
                   max_size, max_size_seen, lock_order, best_owner, seeded, reported>>

\* executor.run(taskflow)
Run ==
    /\ phase = "Dispatching"
    /\ phase' = "Running"
    /\ UNCHANGED <<auxVars, graphVars, scanVars, trialVars, variant, workers, pc, local_clique,
                   best_clique, mtx, max_size, max_size_seen, lock_order, best_owner, runs,
                   seeded, reported>>

\* the lambda of task t runs up to the result update
StartBody(t) ==
    /\ phase \in {"Running", "Collected"}
    /\ pc[t] = "ready"
    /\ Cardinality(busy(pc)) < workers
    /\ \E in \in trial_inputs(variant, adj_list_, degrees, t) :
         /\ trial_order' = [trial_order EXCEPT ![t] = in.order]
         /\ trial_seed' = [trial_seed EXCEPT ![t] = in.seed]
         /\ local_clique' = [local_clique EXCEPT ![t] = run_trial(adj_list_, in.order, in.seed)]
    /\ pc' = [pc EXCEPT ![t] =
                IF variant \in PreCheckVariants THEN "precheck" ELSE "lock"]
    /\ runs' = [runs EXCEPT ![t] = @ + 1]
    /\ UNCHANGED <<loadVars, queryVars, genVars, weightVars, repVars, graphVars,
                   scanVars, variant, phase, workers, best_clique,
                   mtx, max_size, max_size_seen, lock_order, best_owner, seeded, reported>>

\* a free worker takes task t and runs its lambda up to the result update
Start(t) ==
    /\ StartBody(t)
    /\ UNCHANGED rngVars

\* what the comparison before the lock reads
precheck_reads(v) ==
    CASE v \in {"nbr_all", "nbr_random"} -> "best_clique"
      [] v = "hybrid" -> "max_size"
      [] v = "profiling" -> "constant"
      [] OTHER -> "nothing"

\* max_size.load(std::memory_order_relaxed): the latest value or an older one
relaxed_loads(seen) == seen

\* what the comparison before the lock can evaluate to. A read of
\* best_clique.size() that overlaps another task's move-assignment is a data
\* race: either answer can come out
precheck_outcomes(t) ==
    CASE precheck_reads(variant) = "constant" ->
            {Len(local_clique[t]) > SizeThreshold}
      [] precheck_reads(variant) = "max_size" ->
            {Len(local_clique[t]) > m : m \in relaxed_loads(max_size_seen)}
      [] precheck_reads(variant) = "best_clique" ->
            IF \E u \in DOMAIN pc : u # t /\ pc[u] = "assign"
            THEN BOOLEAN
            ELSE {Len(local_clique[t]) > Len(best_clique)}

PreCheck(t) ==
    /\ pc[t] = "precheck"
    /\ \E pass \in precheck_outcomes(t) :
         pc' = [pc EXCEPT ![t] = IF pass THEN "lock" ELSE "done"]
    /\ UNCHANGED <<auxVars, graphVars, scanVars, trialVars, variant, phase, workers, local_clique,
                   best_clique, mtx, max_size, max_size_seen, lock_order, best_owner, runs,
                   seeded, reported>>

\* a lock that is granted while another task still holds it
LockAnyway(t) ==
    /\ pc[t] = "lock"
    /\ mtx' = {t}
    /\ lock_order' = Append(lock_order, t)
    /\ pc' = [pc EXCEPT ![t] = "check"]
    /\ UNCHANGED <<auxVars, graphVars, scanVars, trialVars, variant, phase, workers, local_clique,
                   best_clique, max_size, max_size_seen, best_owner, runs, seeded, reported>>

\* std::lock_guard<std::mutex> lock(mtx)
Lock(t) ==
    /\ pc[t] = "lock"
    /\ mtx_free(mtx)
    /\ mtx' = {t}
    /\ lock_order' = Append(lock_order, t)
    /\ pc' = [pc EXCEPT ![t] = "check"]
    /\ UNCHANGED <<auxVars, graphVars, scanVars, trialVars, variant, phase, workers, local_clique,
                   best_clique, max_size, max_size_seen, best_owner, runs, seeded, reported>>

\* the comparison under the lock
Check(t) ==
    /\ pc[t] = "check"
    /\ pc' = [pc EXCEPT ![t] =
                IF improves(local_clique[t], best_clique) THEN "assign" ELSE "unlock"]
    /\ UNCHANGED <<auxVars, graphVars, scanVars, trialVars, variant, phase, workers, local_clique,
                   best_clique, mtx, max_size, max_size_seen, lock_order, best_owner, runs,
                   seeded, reported>>

\* an assignment that adds the candidate's vertices to the ones already there
AssignAppend(t) ==
    /\ pc[t] = "assign"
    /\ best_clique' = best_clique \o local_clique[t]
    /\ best_owner' = {t}
    /\ pc' = [pc EXCEPT ![t] = IF variant = "hybrid" THEN "store" ELSE "unlock"]
    /\ UNCHANGED <<auxVars, graphVars, scanVars, trialVars, variant, phase, workers, local_clique,
                   mtx, max_size, max_size_seen, lock_order, runs, seeded, reported>>

\* best_clique = std::move(candidate)
Assign(t) ==
    /\ pc[t] = "assign"
    /\ best_clique' = local_clique[t]
    /\ best_owner' = {t}
    /\ pc' = [pc EXCEPT ![t] = IF variant = "hybrid" THEN "store" ELSE "unlock"]
    /\ UNCHANGED <<auxVars, graphVars, scanVars, trialVars, variant, phase, workers, local_clique,
                   mtx, max_size, max_size_seen, lock_order, runs, seeded, reported>>

\* a store of the size the candidate had before the seed was appended
StoreWithoutSeed(t) ==
    /\ pc[t] = "store"
    /\ max_size' = Len(best_clique) - 1
    /\ max_size_seen' = max_size_seen \cup {Len(best_clique) - 1}
    /\ pc' = [pc EXCEPT ![t] = "unlock"]
    /\ UNCHANGED <<auxVars, graphVars, scanVars, trialVars, variant, phase, workers, local_clique,
                   best_clique, mtx, lock_order, best_owner, runs, seeded,
                   reported>>

\* max_size.store(best_clique.size())
Store(t) ==
    /\ pc[t] = "store"
    /\ max_size' = Len(best_clique)
    /\ max_size_seen' = max_size_seen \cup {Len(best_clique)}
    /\ pc' = [pc EXCEPT ![t] = "unlock"]
    /\ UNCHANGED <<auxVars, graphVars, scanVars, trialVars, variant, phase, workers, local_clique,
                   best_clique, mtx, lock_order, best_owner, runs, seeded,
                   reported>>

\* a lock_guard that is never destroyed
UnlockKeepsMutex(t) ==
    /\ pc[t] = "unlock"
    /\ pc' = [pc EXCEPT ![t] = "done"]
    /\ UNCHANGED <<auxVars, graphVars, scanVars, trialVars, variant, phase, workers, local_clique,
                   best_clique, mtx, max_size, max_size_seen, lock_order, best_owner, runs,
                   seeded, reported>>

\* the lock_guard goes out of scope and the lambda returns
Unlock(t) ==
    /\ pc[t] = "unlock"
    /\ mtx' = {}
    /\ pc' = [pc EXCEPT ![t] = "done"]
    /\ UNCHANGED <<auxVars, graphVars, scanVars, trialVars, variant, phase, workers, local_clique,
                   best_clique, max_size, max_size_seen, lock_order, best_owner, runs, seeded,
                   reported>>

\* executor.run(taskflow).wait() returns
Wait ==
    /\ phase = "Running"
    /\ wait_returns(pc)
    /\ phase' = "Collected"
    /\ UNCHANGED <<auxVars, graphVars, scanVars, trialVars, variant, workers, pc, local_clique,
                   best_clique, mtx, max_size, max_size_seen, lock_order, best_owner, runs,
                   seeded, reported>>

\* the driver prints best_clique.size() and, in some programs, sorts the list
Report ==
    /\ phase = "Collected"
    /\ reported = {}
    /\ reported' = {Len(best_clique)}
    /\ best_clique' = IF variant \in SortingVariants
                      THEN SortedClique(best_clique) ELSE best_clique
    /\ UNCHANGED <<auxVars, graphVars, scanVars, trialVars, variant, phase, workers, pc,
                   local_clique, mtx, max_size, max_size_seen, lock_order, best_owner, runs,
                   seeded>>

TaskStep(t) ==
    \/ Start(t)
    \/ PreCheck(t)
    \/ Lock(t)
    \/ Check(t)
    \/ Assign(t)
    \/ Store(t)
    \/ Unlock(t)

DriverStep ==
    \/ SeedDegreeOrder
    \/ Dispatch
    \/ Run
    \/ Wait
    \/ Report

Next ==
    \/ SeedDegreeOrder
    \/ Dispatch
    \/ Run
    \/ \E t \in DOMAIN pc : Start(t)
    \/ \E t \in DOMAIN pc : PreCheck(t)
    \/ \E t \in DOMAIN pc : Lock(t)
    \/ \E t \in DOMAIN pc : Check(t)
    \/ \E t \in DOMAIN pc : Assign(t)
    \/ \E t \in DOMAIN pc : Store(t)
    \/ \E t \in DOMAIN pc : Unlock(t)
    \/ Wait
    \/ Report

Spec == Init /\ [][Next]_vars

\* ------------------------------------------- the trials' random engines
\* the programs whose trials the engines are looked at in
EngineVariants == {"greedy", "weight", "hybrid"}

\* where the lambda of task t gets its engine from: the degree task draws
\* nothing, the hybrid program keeps one static thread_local engine per
\* worker thread, the other programs construct one on the lambda's stack
engine_scope(v, t) ==
    CASE task_kind(v, t) = "degree" -> "none"
      [] v = "hybrid" -> "thread"
      [] OTHER -> "trial"

\* the engine task t draws from when worker w runs it
engine_drawn(v, w, t) ==
    CASE engine_scope(v, t) = "none" -> {}
      [] engine_scope(v, t) = "thread" -> {<<"thread", w>>}
      [] engine_scope(v, t) = "trial" -> {<<"trial", t>>}

\* the workers that are running a lambda
busy_workers == {on_worker[u] : u \in busy(pc) \cap DOMAIN on_worker}

\* the engines constructed so far
engines_made == UNION {engine_of[u] : u \in DOMAIN engine_of}

RngInit ==
    /\ Init
    /\ variant \in EngineVariants

\* worker w is free, takes task t and runs its lambda up to the result
\* update; the engine is constructed when control first passes its declaration
StartOn(w, t) ==
    /\ StartBody(t)
    /\ w \in 1 .. workers
    /\ w \notin busy_workers
    /\ on_worker' = (t :> w) @@ on_worker
    /\ engine_of' = (t :> engine_drawn(variant, w, t)) @@ engine_of
    /\ engine_inits' = engine_inits +
            Cardinality(engine_drawn(variant, w, t) \ engines_made)

RngNext ==
    \/ Dispatch
    \/ Run
    \/ \E t \in DOMAIN pc : \E w \in 1 .. MaxWorkers : StartOn(w, t)
    \/ \E t \in DOMAIN pc : PreCheck(t)
    \/ \E t \in DOMAIN pc : Lock(t)
    \/ \E t \in DOMAIN pc : Check(t)
    \/ \E t \in DOMAIN pc : Assign(t)
    \/ \E t \in DOMAIN pc : Store(t)
    \/ \E t \in DOMAIN pc : Unlock(t)
    \/ Wait
    \/ Report

RngSpec == RngInit /\ [][RngNext]_vars

\* ------------------------------------------------ repeated experiments
\* the programs that run NumExperiments runs on one executor:
\* dataset_taskflow_greedy_repeat.cc, dataset_taskflow_greedy_weight_repeat.cc
\* and max_clique_random_neighborhood.cc
RepeatVariants == {"greedy", "weight", "nbr_random"}

RepeatInit ==
    /\ Init
    /\ variant \in RepeatVariants

\* results.push_back(best_clique.size()) and the "Run r: Best Size" line
RecordResult ==
    /\ phase = "Collected"
    /\ reported = {}
    /\ results' = Append(results, Len(best_clique))
    /\ reported' = {Len(best_clique)}
    /\ UNCHANGED <<loadVars, queryVars, genVars, weightVars, rngVars, experiment,
                   graphVars, scanVars, trialVars, variant, phase, workers, pc,
                   local_clique, best_clique, mtx, max_size, max_size_seen,
                   lock_order, best_owner, runs, seeded>>

\* the loop body ends: taskflow, best_clique and mtx are destroyed, ++run,
\* and the next pass declares new ones
NextExperimentBody ==
    /\ experiment + 1 < NumExperiments
    /\ experiment' = experiment + 1
    /\ phase' = "Idle"
    /\ pc' = <<>>
    /\ trial_order' = <<>>
    /\ trial_seed' = <<>>
    /\ local_clique' = <<>>
    /\ best_clique' = <<>>
    /\ mtx' = {}
    /\ max_size' = 0
    /\ max_size_seen' = {0}
    /\ lock_order' = <<>>
    /\ best_owner' = {}
    /\ runs' = <<>>
    /\ reported' = {}
    /\ UNCHANGED <<loadVars, queryVars, genVars, weightVars, rngVars, results,
                   graphVars, scanVars, variant, workers, seeded>>

\* a loop that goes on to the next pass without waiting for the run
NextExperimentNoWait ==
    /\ phase \in {"Running", "Collected"}
    /\ phase = "Collected" => reported # {}
    /\ NextExperimentBody

\* the next pass of the loop starts after the size of this one was recorded
NextExperiment ==
    /\ phase = "Collected"
    /\ reported # {}
    /\ NextExperimentBody

RepeatNext ==
    \/ Dispatch
    \/ Run
    \/ \E t \in DOMAIN pc : Start(t)
    \/ \E t \in DOMAIN pc : PreCheck(t)
    \/ \E t \in DOMAIN pc : Lock(t)
    \/ \E t \in DOMAIN pc : Check(t)
    \/ \E t \in DOMAIN pc : Assign(t)
    \/ \E t \in DOMAIN pc : Unlock(t)
    \/ Wait
    \/ RecordResult
    \/ NextExperiment

RepeatSpec == RepeatInit /\ [][RepeatNext]_vars

\* fair scheduling: the driver and every task keep being scheduled
FairSpec ==
    /\ Spec
    /\ WF_vars(DriverStep)
    /\ \A t \in 1..MaxTasks : WF_vars(t \in DOMAIN pc /\ TaskStep(t))

\* ------------------------------------------------- save_to_file_adj_list
\* the rows "i: n1 n2 ..." of the adjacency file, one per vertex; the
\* neighbours of a row come in the iteration order of the unordered_set,
\* which can be any
save_to_file_adj_list(adj) ==
    {rows \in [DOMAIN adj -> UNION {Perms(adj[i]) : i \in DOMAIN adj}] :
        \A i \in DOMAIN adj : rows[i] \in Perms(adj[i])}

\* ------------------------------------------------- load_dimacs_graph
\* programs that read the graph from a file (the others generate it)
LoadingVariants == {"greedy", "weight", "profiling", "nbr_all", "nbr_random", "hybrid"}
\* "if (num_vertices == 0) ... exit(1)" after the header loop
HeaderCheckVariants == {"greedy", "weight", "nbr_all", "nbr_random"}
\* the check writes a message to std::cerr before exit(1)
HeaderMessageVariants == {"greedy", "weight"}

\* what "ss >> num_vertices" can leave in num_vertices: a negative number, 0
\* (also when the field cannot be read), or a positive count
HeaderCounts == (0 - 1) .. NumVertices

\* the ids on an edge line: 0, the 1-based ids and one id above them
FileIds == 0 .. (NumVertices + 1)

\* lines that neither loop takes for data: empty, comment, other text
SkippedKinds == {"empty", "c", "text"}

\* the lines of a file. p: the header, u its vertex count. e: "e u v".
\* bare: "u v". e_short: a line that starts with e and has no two readable
\* ids; "ss >> type >> u >> v" fails and u, v keep what the uninitialized
\* ints held, here any of the ids.
Lines ==
    [kind : SkippedKinds, u : {0}, v : {0}]
        \cup [kind : {"p"}, u : HeaderCounts, v : {0}]
        \cup [kind : {"e", "bare", "e_short"}, u : FileIds, v : FileIds]

DataKinds == {"e", "bare", "e_short"}

\* an id that is kept as it is
to_index_unchanged(x) == x

\* "if (u > 0) u--;"
to_index(x) == IF x > 0 THEN x - 1 ELSE x

header_of(line) ==
    CASE line.u > 0 -> "ok"
      [] line.u = 0 -> "unreadable"
      [] OTHER -> "negative"

LoadInit ==
    /\ adj_list_ = <<>>
    /\ degrees = <<>>
    /\ NoScan
    /\ variant \in LoadingVariants
    /\ phase = "Idle"
    /\ workers = 1
    /\ pc = <<>>
    /\ trial_order = <<>>
    /\ trial_seed = <<>>
    /\ local_clique = <<>>
    /\ best_clique = <<>>
    /\ mtx = {}
    /\ max_size = 0
    /\ max_size_seen = {0}
    /\ lock_order = <<>>
    /\ best_owner = {}
    /\ runs = <<>>
    /\ seeded = 0
    /\ reported = {}
    /\ load_pc = "open"
    /\ num_vertices = 0
    /\ lines_read = 0
    /\ header = "none"
    /\ data_lines = {}
    /\ ignored = {}
    /\ cerr = {}
    /\ NoQuery
    /\ NoGen
    /\ NoWeights
    /\ NoRng
    /\ NoRepeat

\* std::ifstream ifs(filename); if (!ifs) { std::cerr << ...; exit(1); }
OpenFile ==
    /\ load_pc = "open"
    /\ \E ok \in BOOLEAN :
         /\ load_pc' = IF ok THEN "header" ELSE "exited"
         /\ cerr' = IF ok THEN cerr ELSE cerr \cup {"open"}
    /\ UNCHANGED <<genVars, weightVars, rngVars, repVars, graphVars, scanVars, runVars, queryVars, num_vertices, lines_read,
                   header, data_lines, ignored>>

\* one turn of the first while loop: a p line sets num_vertices and ends the
\* loop, every other line is passed over
HeaderLine ==
    /\ load_pc = "header"
    /\ lines_read < MaxLines
    /\ lines_read' = lines_read + 1
    /\ \E line \in Lines :
         /\ num_vertices' = IF line.kind = "p" THEN line.u ELSE num_vertices
         /\ header' = IF line.kind = "p" THEN header_of(line) ELSE header
         /\ load_pc' = IF line.kind = "p" THEN "check" ELSE "header"
    /\ UNCHANGED <<genVars, weightVars, rngVars, repVars, graphVars, scanVars, runVars, queryVars, data_lines, ignored, cerr>>

\* std::getline fails in the first loop: the file has no p line
HeaderEnd ==
    /\ load_pc = "header"
    /\ header' = "missing"
    /\ load_pc' = "check"
    /\ UNCHANGED <<genVars, weightVars, rngVars, repVars, graphVars, scanVars, runVars, queryVars, num_vertices, lines_read,
                   data_lines, ignored, cerr>>

\* after the first loop: the check of num_vertices where the program has one,
\* then Graph g(num_vertices); a negative count makes the vector's constructor
\* throw std::length_error, which nothing catches
Construct ==
    /\ load_pc = "check"
    /\ load_pc' =
         CASE variant \in HeaderCheckVariants /\ num_vertices = 0 -> "exited"
           [] num_vertices < 0 -> "aborted"
           [] OTHER -> "edges"
    /\ cerr' = IF variant \in HeaderMessageVariants /\ num_vertices = 0
               THEN cerr \cup {"header"} ELSE cerr
    /\ adj_list_' = IF load_pc' = "edges" THEN new_graph(num_vertices) ELSE adj_list_
    /\ UNCHANGED <<genVars, weightVars, rngVars, repVars, degrees, scanVars, runVars, queryVars, num_vertices, lines_read,
                   header, data_lines, ignored>>

\* one turn of the second while loop on a line that is passed over: empty,
\* comment, or a line "tss >> u >> v" cannot read (a further p line too)
SkipLine ==
    /\ load_pc = "edges"
    /\ header # "missing"
    /\ lines_read < MaxLines
    /\ \E line \in Lines :
         /\ line.kind \in SkippedKinds \cup {"p"}
         /\ lines_read' = lines_read + 1
    /\ UNCHANGED <<genVars, weightVars, rngVars, repVars, graphVars, scanVars, runVars, queryVars, load_pc, num_vertices,
                   header, data_lines, ignored, cerr>>

\* one turn of the second while loop on an edge line: u and v are read, each
\* is decremented when positive, and g.add_edge(u, v) is called
EdgeLine ==
    /\ load_pc = "edges"
    /\ header # "missing"
    /\ lines_read < MaxLines
    /\ lines_read' = lines_read + 1
    /\ \E line \in Lines :
         /\ line.kind \in DataKinds
         /\ data_lines' = data_lines \cup {line}
         /\ adj_list_' = add_edge(adj_list_, to_index(line.u), to_index(line.v))
         /\ ignored' = IF in_range(adj_list_, to_index(line.u))
                           /\ in_range(adj_list_, to_index(line.v))
                        THEN ignored
                        ELSE ignored \cup {<<to_index(line.u), to_index(line.v)>>}
    /\ UNCHANGED <<genVars, weightVars, rngVars, repVars, degrees, scanVars, runVars, queryVars, load_pc, num_vertices,
                   header, cerr>>

\* std::getline fails in the second loop: "return g", and main, where it has
\* a degree table, fills it
LoadReturn ==
    /\ load_pc = "edges"
    /\ load_pc' = "loaded"
    /\ degrees' = IF variant \in DegreeTableVariants
                  THEN degree_table(adj_list_) ELSE <<>>
    /\ UNCHANGED <<genVars, weightVars, rngVars, repVars, adj_list_, scanVars, runVars, queryVars, num_vertices, lines_read,
                   header, data_lines, ignored, cerr>>

\* main goes on to the taskflow.emplace loops once the load has returned
MainDispatch ==
    /\ load_pc = "loaded"
    /\ Dispatch

LoadNext ==
    \/ OpenFile
    \/ HeaderLine
    \/ HeaderEnd
    \/ Construct
    \/ SkipLine
    \/ EdgeLine
    \/ LoadReturn
    \/ MainDispatch

LoadSpec == LoadInit /\ [][LoadNext]_vars

\* ------------------------------------------------- the random generator
\* edge_probability, in hundredths: never, every second pair, always
Probabilities == {0, 50, 100}

\* values dis(gen) can return, in hundredths: uniform over [0.0, 1.0)
DrawSamples == {0, 50, 99}

\* an edge is added for a draw at or below the probability
edge_drawn_or_equal(d, p) == d <= p

\* if (dis(gen) < edge_probability)
edge_drawn(d, p) == d < p

\* Graph g(num_vertices) is constructed; the outer loop is about to start
GenInit ==
    /\ \E n \in 0 .. NumVertices : adj_list_ = new_graph(n)
    /\ degrees = <<>>
    /\ gen_pc = "loop"
    /\ gen_i = 0
    /\ gen_j = 1
    /\ edge_probability \in Probabilities
    /\ draw_log = <<>>
    /\ NoScan
    /\ NoRun
    /\ NoLoad
    /\ NoQuery
    /\ NoWeights
    /\ NoRng
    /\ NoRepeat

\* one pass of the inner loop: one draw, the edge if it is low enough, ++j
GenPair ==
    /\ gen_pc = "loop"
    /\ gen_i < get_num_vertices(adj_list_)
    /\ gen_j < get_num_vertices(adj_list_)
    /\ \E d \in DrawSamples :
         /\ draw_log' = Append(draw_log, <<gen_i, gen_j, d>>)
         /\ adj_list_' = IF edge_drawn(d, edge_probability)
                         THEN add_edge(adj_list_, gen_i, gen_j)
                         ELSE adj_list_
    /\ gen_j' = gen_j + 1
    /\ UNCHANGED <<loadVars, queryVars, weightVars, rngVars, repVars, degrees,
                   scanVars, runVars, gen_pc, gen_i, edge_probability>>

\* the inner loop is over: ++i, j = i + 1
GenNextRow ==
    /\ gen_pc = "loop"
    /\ gen_i < get_num_vertices(adj_list_)
    /\ gen_j >= get_num_vertices(adj_list_)
    /\ gen_i' = gen_i + 1
    /\ gen_j' = gen_i + 2
    /\ UNCHANGED <<loadVars, queryVars, weightVars, rngVars, repVars, graphVars,
                   scanVars, runVars, gen_pc, edge_probability, draw_log>>

\* the outer loop is over: return g
GenReturn ==
    /\ gen_pc = "loop"
    /\ gen_i >= get_num_vertices(adj_list_)
    /\ gen_pc' = "done"
    /\ UNCHANGED <<loadVars, queryVars, weightVars, rngVars, repVars, graphVars,
                   scanVars, runVars, gen_i, gen_j, edge_probability, draw_log>>

GenNext ==
    \/ GenPair
    \/ GenNextRow
    \/ GenReturn

GenSpec == GenInit /\ [][GenNext]_vars

\* ------------------------------------------------- the weighted sort
\* the width of noise_dist
NoiseWidth == 50

\* degrees of the candidates in the table main() filled from a large graph
DegreeSamples == {0, 1, 100, 101}

\* the degree table is filled; no trial has sorted yet
WeightInit ==
    /\ adj_list_ = <<>>
    /\ degrees \in [Vertices -> DegreeSamples]
    /\ NoScan
    /\ NoRun
    /\ NoLoad
    /\ NoQuery
    /\ NoGen
    /\ NoWeights
    /\ NoRng
    /\ NoRepeat

\* one trial scores its candidates (all vertices, or the neighbours of a
\* seed), sorts the (score, id) pairs from the back and keeps the ids
WeightedSort ==
    /\ strategy = "none"
    /\ \E cands \in (SUBSET DOMAIN degrees) \ {{}} :
         \E noise \in [cands -> NoiseValues] :
            /\ trial_noise' = noise
            /\ vertex_order' = weighted_order(degrees, noise, cands)
    /\ strategy' = "weighted"
    /\ UNCHANGED <<loadVars, queryVars, genVars, rngVars, repVars, graphVars,
                   scan_pc, pos, clique, seed_vertex, degree_runs, adj_checks,
                   runVars>>

WeightNext == WeightedSort

WeightSpec == WeightInit /\ [][WeightNext]_vars

\* ----------------------------------------- trials on three fixed graphs
\* four vertices, edges 0-1, 0-2, 1-2, 2-3
ScenarioA == build_graph(new_graph(4), {<<0, 1>>, <<0, 2>>, <<1, 2>>, <<2, 3>>})

\* five vertices, no edge
ScenarioB == new_graph(5)

\* six vertices, every two distinct vertices joined
ScenarioC ==
    build_graph(new_graph(6), {e \in (0 .. 5) \X (0 .. 5) : e[1] < e[2]})

ScenarioGraphs == {ScenarioA, ScenarioB, ScenarioC}

\* the graph is loaded; one trial of any strategy is run on it
ScenarioInit ==
    /\ adj_list_ \in ScenarioGraphs
    /\ degrees = <<>>
    /\ scan_pc = "build"
    /\ vertex_order = <<>>
    /\ pos = 1
    /\ clique = <<>>
    /\ seed_vertex = {}
    /\ strategy = "none"
    /\ degree_runs = {}
    /\ adj_checks = 0
    /\ NoRun
    /\ NoLoad
    /\ NoQuery
    /\ NoGen
    /\ NoWeights
    /\ NoRng
    /\ NoRepeat

ScenarioNext ==
    \/ BeginDegreeScan
    \/ BeginShuffleScan
    \/ BeginWeightedScan
    \/ BeginNeighbourhoodScan
    \/ ScanStep
    \/ ScanReturn

ScenarioSpec == ScenarioInit /\ [][ScenarioNext]_vars

\* ------------------------------------------------------------- claims
IsClique(adj, c) ==
    \A i \in 1..Len(c), j \in 1..Len(c) :
        c[i] # c[j] => is_adjacent(adj, c[i], c[j])

\* C1: at every step of the greedy scan and in the returned clique (also after
\* a neighbourhood trial appended its seed) every two distinct members are
\* adjacent.
C1_PairwiseAdjacent == IsClique(adj_list_, clique)

C1_Witness ==
    /\ scan_pc = "returned"
    /\ seed_vertex # {}
    /\ Len(clique) = 3
    /\ Cardinality(Range(clique)) = 3

\* ------------------------------------------------ claims about one run
Tasks == DOMAIN pc

\* tasks whose lambda has computed its clique
Computed == {t \in Tasks : pc[t] # "ready"}

\* sizes of the cliques the run's trials have produced so far; the degree-order
\* run the driver makes itself (test12, test13) is one of the run's trials
ProducedSizes ==
    {Len(local_clique[t]) : t \in Computed}
        \cup (IF seeded > 0 THEN {Len(degree_order_clique(adj_list_))} ELSE {})

LockPos(t) == CHOOSE i \in 1..Len(lock_order) : lock_order[i] = t

Locked == Range(lock_order)

\* C2: when all trials have completed, the best clique's size is the maximum
\* of the sizes of the cliques the trials produced (programs the claim cites:
\* the plain greedy driver and the profiling drivers).
C2_BestIsMaximum ==
    (phase = "Collected" /\ variant \in {"greedy", "profiling"})
        => Len(best_clique) = MaxOf(ProducedSizes)

\* C3: best_clique is replaced only by a task that holds mtx and whose clique
\* is strictly larger than best_clique as it stands under that lock; a task
\* that got past the pre-check and finished never leaves best_clique smaller
\* than its own clique.
C3_NoLostUpdate ==
    /\ [][(phase = "Running" /\ best_clique' # best_clique)
            => \E t \in Tasks :
                 /\ mtx = {t}
                 /\ pc[t] = "assign"
                 /\ Len(local_clique[t]) > Len(best_clique)
                 /\ best_clique' = local_clique[t]]_vars
    /\ [](\A t \in Tasks :
            (t \in Locked /\ pc[t] = "done")
                => Len(best_clique) >= Len(local_clique[t]))

\* two tasks passed the unsynchronised pre-check, the larger took the lock
\* first and the smaller was turned away by the comparison under the lock
C3_Witness ==
    /\ variant \in {"hybrid", "nbr_random"}
    /\ \E t \in Tasks, u \in Tasks :
         /\ t \in Locked /\ u \in Locked
         /\ pc[t] = "done" /\ pc[u] = "done"
         /\ LockPos(t) < LockPos(u)
         /\ Len(local_clique[t]) > Len(local_clique[u])
         /\ best_owner = {t}

\* C4: no task reads best_clique outside the lock while another task is
\* move-assigning it.
C4_RaceFree ==
    \A t \in Tasks, u \in Tasks :
        ~ /\ t # u
          /\ pc[t] = "precheck"
          /\ precheck_reads(variant) = "best_clique"
          /\ pc[u] = "assign"

\* C5: the best clique's size never decreases from one state to the next, and
\* it never exceeds the largest size a trial of the run has produced so far.
C5_Monotonic ==
    /\ [][Len(best_clique') >= Len(best_clique)]_vars
    /\ [](Len(best_clique) <= MaxOf(ProducedSizes \cup {0}))

\* best_clique grew more than once: its writer is not the first task that locked
C5_Witness ==
    /\ Len(lock_order) >= 2
    /\ Len(best_clique) >= 2
    /\ \E t \in Tasks : best_owner = {t} /\ t # lock_order[1]

\* the writers of a run in the order they wrote or locked: a seeding driver first
Writers ==
    (IF seeded > 0 THEN <<Driver>> ELSE <<>>) \o lock_order

WriterSize(w) ==
    IF w = Driver THEN Len(degree_order_clique(adj_list_)) ELSE Len(local_clique[w])

\* C6: a candidate of the same size as best_clique never replaces it; at the
\* end, among the trials whose clique has the final maximum size, the one that
\* took the lock first is the one best_clique holds.
C6_FirstWriterWins ==
    /\ [][best_owner' # best_owner => Len(best_clique') > Len(best_clique)]_vars
    /\ [](phase = "Collected" =>
            IF Writers = <<>>
            THEN best_owner = {} /\ best_clique = <<>>
            ELSE \E i \in 1..Len(Writers) :
                   /\ best_owner = {Writers[i]}
                   /\ WriterSize(Writers[i]) = Len(best_clique)
                   /\ \A j \in 1..(i - 1) : WriterSize(Writers[j]) < Len(best_clique)
                   /\ variant \notin PreCheckVariants
                        => Len(best_clique) = MaxOf(ProducedSizes)
                   /\ (reported = {} /\ Writers[i] # Driver)
                        => best_clique = local_clique[Writers[i]])

\* two trials produced different cliques of the maximum size; the first to
\* lock is kept
C6_Witness ==
    /\ variant = "greedy"
    /\ phase = "Collected"
    /\ reported = {}
    /\ \E t \in Tasks, u \in Tasks :
         /\ best_owner = {t}
         /\ Len(local_clique[u]) = Len(local_clique[t])
         /\ local_clique[u] # local_clique[t]
         /\ LockPos(t) < LockPos(u)

\* C7: at Collected the best clique is at least as large as the clique of the
\* degree-descending order (programs the claim cites).
C7_DegreeBaseline ==
    (phase = "Collected" /\ variant \in {"greedy", "hybrid", "test12"})
        => Len(best_clique) >= Len(degree_order_clique(adj_list_))

RECURSIVE SumRuns(_)
SumRuns(n) == IF n = 0 THEN 0 ELSE runs[n] + SumRuns(n - 1)

DegreeTrials ==
    seeded + Cardinality({t \in Tasks : task_kind(variant, t) = "degree" /\ runs[t] > 0})

RandomTrials ==
    Cardinality({t \in Tasks : task_kind(variant, t) # "degree" /\ runs[t] > 0})

\* C8: a run with trial count N executes N trials: one degree-descending trial
\* and N-1 randomized trials, each exactly once (programs the claim cites).
C8_ExactlyNTrials ==
    (phase = "Collected" /\ variant \in {"greedy", "test12", "test13"}) =>
        /\ seeded + SumRuns(Len(runs)) = NumTrials
        /\ DegreeTrials = 1
        /\ RandomTrials = NumTrials - 1
        /\ \A t \in Tasks : runs[t] = 1

\* C9: under fair scheduling every dispatched task completes and the run
\* reaches Collected, whatever the number of workers; until then some step is
\* always possible.
C9_RunCompletes ==
    /\ <>(phase = "Collected" /\ Tasks # {} /\ all_done(pc) /\ mtx = {})
    /\ [](reported = {} => ENABLED Next)

\* a single worker ran all tasks, and more than one of them took the lock
C9_Witness ==
    /\ phase = "Collected"
    /\ workers = 1
    /\ Len(lock_order) >= 2
    /\ all_done(pc)

PhaseOrder ==
    {<<"Idle", "Dispatching">>, <<"Dispatching", "Running">>,
     <<"Running", "Collected">>}

\* C10: the phases follow Idle, Dispatching, Running, Collected; the driver
\* reads best_clique only when every task has completed, and no task updates
\* best_clique after the driver has read it.
C10_PhaseOrder ==
    /\ [][phase' # phase => <<phase, phase'>> \in PhaseOrder]_vars
    /\ [](reported # {} => (phase = "Collected" /\ all_done(pc) /\ mtx = {}))
    /\ [](phase \in {"Idle", "Dispatching"} => \A t \in Tasks : pc[t] = "ready")
    /\ [][reported # {} => (best_owner' = best_owner /\ best_clique' = best_clique)]_vars

C10_Witness ==
    /\ reported # {}
    /\ Len(lock_order) >= 2
    /\ \E t \in Tasks : best_owner = {t}

\* positions of a task's lambda between the lock_guard's construction and its
\* destruction
CriticalSection == {"check", "assign", "store", "unlock"}

InCS(t) == pc[t] \in CriticalSection

\* what the holder of mtx does, step by step: the comparison, then the
\* move-assignment if it won (with the max_size store that goes with it in the
\* atomic double-check program), then the release
CSOrder ==
    {<<"check", "assign">>, <<"check", "unlock">>, <<"assign", "store">>,
     <<"assign", "unlock">>, <<"store", "unlock">>, <<"unlock", "done">>}

\* C11: at most one task is between lock and unlock at any time and it is the
\* holder of mtx; a started task can always take its next step except at the
\* lock, where it can as soon as mtx is free; the holder only compares, assigns
\* and releases; a task leaves the lock only by acquiring mtx, and from some
\* point on mtx is free and nobody waits at the lock: every holder has released
\* it and every task that waited has held it.
C11_MutualExclusion ==
    /\ [](\A t \in Tasks, u \in Tasks : (InCS(t) /\ InCS(u)) => t = u)
    /\ [](\A t \in Tasks : InCS(t) <=> mtx = {t})
    /\ [](\A t \in Tasks :
            /\ (pc[t] \in CriticalSection \cup {"precheck"}) => ENABLED TaskStep(t)
            /\ (pc[t] = "lock" /\ mtx = {}) => ENABLED Lock(t)
            /\ (pc[t] = "lock" /\ mtx # {}) => ~ ENABLED TaskStep(t))
    /\ [][\A t \in Tasks :
            (mtx = {t} /\ pc'[t] # pc[t]) => <<pc[t], pc'[t]>> \in CSOrder]_vars
    /\ [][\A t \in Tasks :
            (pc[t] = "lock" /\ pc'[t] # "lock") => (pc'[t] = "check" /\ mtx' = {t})]_vars
    /\ <>[](mtx = {} /\ \A t \in Tasks : pc[t] # "lock")

\* a task holds mtx in the middle of the assignment while another one waits at
\* the lock
C11_Witness ==
    \E t \in Tasks, u \in Tasks :
        /\ mtx = {t}
        /\ pc[t] = "assign"
        /\ pc[u] = "lock"

\* the clique the scan yields for an ordering and a seed, on the run's graph
ScanOf(order, seed) ==
    IF seed = {} THEN greedy_from(adj_list_, order, 1, <<>>)
    ELSE Append(greedy_from(adj_list_, order, 1, <<>>), CHOOSE s \in seed : TRUE)

C13_GraphReadOnly ==
    /\ [][adj_list_' = adj_list_ /\ degrees' = degrees]_vars
    /\ [](variant \in DegreeTableVariants =>
            /\ DOMAIN degrees = Vertices
            /\ \A v \in Vertices : degrees[v] = Cardinality(get_neighbors(adj_list_, v)))
    /\ [](\A t \in Computed :
            trial_seed[t] # {} =>
                /\ Len(trial_order[t]) = Cardinality(Range(trial_order[t]))
                /\ \A s \in trial_seed[t] :
                     Range(trial_order[t]) = get_neighbors(adj_list_, s))

\* a run over a graph with unequal degrees is over; a trial read the table to
\* order two neighbours and its clique was assigned
C13_Witness ==
    /\ variant = "hybrid"
    /\ phase = "Collected"
    /\ \E v \in Vertices, w \in Vertices : degrees[v] # degrees[w]
    /\ \E t \in Tasks :
         /\ Len(trial_order[t]) = 2
         /\ best_owner = {t}
         /\ Len(best_clique) = 2

\* c is o with some elements left out, the others in their order
IsSubsequence(c, o) ==
    \E f \in [1..Len(c) -> 1..Len(o)] :
        /\ \A i \in 1..Len(c) : o[f[i]] = c[i]
        /\ \A i \in 1..Len(c), j \in 1..Len(c) : i < j => f[i] < f[j]

\* the part of the ordering the scan has visited
Visited == SubSeq(vertex_order, 1, pos - 1)

\* C14: the scan starts from the empty clique and visits the ordering once from
\* left to right; the vertex it visits is appended iff it is adjacent to every
\* member the clique has at that moment, otherwise the clique stays as it is;
\* members are never removed, and the clique is a subsequence of the visited
\* part of the ordering (of the whole ordering when the scan returns).
C14_GreedyRule ==
    /\ []((scan_pc = "scan" /\ pos = 1) => clique = <<>>)
    /\ [][(scan_pc = "scan" /\ scan_pc' = "scan") =>
            /\ pos' = pos + 1
            /\ vertex_order' = vertex_order
            /\ IF \A i \in 1..Len(clique) : clique[i] \in adj_list_[vertex_order[pos]]
               THEN clique' = Append(clique, vertex_order[pos])
               ELSE clique' = clique]_vars
    /\ [][scan_pc = "scan" =>
            /\ Len(clique') >= Len(clique)
            /\ SubSeq(clique', 1, Len(clique)) = clique]_vars
    /\ [](scan_pc = "scan" => IsSubsequence(clique, Visited))
    /\ []((scan_pc = "returned" /\ seed_vertex = {}) =>
            /\ pos = Len(vertex_order) + 1
            /\ IsSubsequence(clique, vertex_order))

\* the scan returned after accepting the first vertex, rejecting the second and
\* accepting the third
C14_Witness ==
    /\ scan_pc = "returned"
    /\ seed_vertex = {}
    /\ Len(vertex_order) = 3
    /\ clique = <<vertex_order[1], vertex_order[3]>>
    /\ Cardinality(Range(vertex_order)) = 3

NoSelfLoops(adj) == \A v \in DOMAIN adj : v \notin adj[v]

\* u is adjacent to every member of the scan's clique
ExtendsClique(u) == \A i \in 1..Len(clique) : clique[i] \in adj_list_[u]

\* C15: when the scan has returned on a graph without self-loops, no vertex of
\* the ordering that is missing from the clique is adjacent to all its members;
\* if the ordering covers all vertices, or the trial was restricted to the
\* neighbours of a seed and the seed has been appended, no vertex of the graph
\* outside the clique is adjacent to all its members.
C15_Maximal ==
    (scan_pc = "returned" /\ NoSelfLoops(adj_list_)) =>
        /\ \A u \in Range(vertex_order) \ Range(clique) : ~ ExtendsClique(u)
        /\ (Range(vertex_order) = Vertices \/ seed_vertex # {}) =>
              \A u \in Vertices \ Range(clique) : ~ ExtendsClique(u)

\* a neighbourhood trial returned: one neighbour of the seed is in the clique
\* with the seed, another one was rejected
C15_Witness ==
    /\ scan_pc = "returned"
    /\ NoSelfLoops(adj_list_)
    /\ seed_vertex # {}
    /\ Len(clique) = 2
    /\ Range(vertex_order) \ Range(clique) # {}

\* what find_greedy_max_clique returned: the clique without the seed a
\* neighbourhood trial appended afterwards
ScanResult ==
    IF seed_vertex = {} THEN clique ELSE SubSeq(clique, 1, Len(clique) - 1)

\* C16: a scan that was entered returns; it visits the positions of the
\* ordering one by one, each once, and returns right after the last one; what
\* it returns is a clique, empty for the empty ordering and beginning with the
\* ordering's first vertex otherwise.
C16_ScanTotal ==
    /\ (scan_pc = "scan") ~> (scan_pc = "returned")
    /\ [](scan_pc = "scan" =>
            /\ pos \in 1..(Len(vertex_order) + 1)
            /\ ENABLED (ScanStep \/ ScanReturn))
    /\ [][scan_pc = "scan" =>
            \/ scan_pc' = "scan" /\ pos <= Len(vertex_order) /\ pos' = pos + 1
            \/ scan_pc' = "returned" /\ pos = Len(vertex_order) + 1 /\ pos' = pos]_vars
    /\ [](scan_pc = "returned" =>
            /\ IsClique(adj_list_, ScanResult)
            /\ vertex_order = <<>> => ScanResult = <<>>
            /\ vertex_order # <<>> => (ScanResult # <<>> /\ ScanResult[1] = vertex_order[1]))

\* the scan of a three-vertex ordering returned with the first vertex alone:
\* the two later vertices were visited and rejected
C16_Witness ==
    /\ scan_pc = "returned"
    /\ seed_vertex = {}
    /\ Len(vertex_order) = 3
    /\ clique = <<vertex_order[1]>>

Degree(v) == Cardinality(adj_list_[v])

\* o holds every vertex of the graph once, larger degrees first and, among
\* equal degrees, smaller ids first
DegreeDescending(o) ==
    /\ Len(o) = Cardinality(DOMAIN adj_list_)
    /\ Range(o) = DOMAIN adj_list_
    /\ \A i \in 1..(Len(o) - 1) :
         \/ Degree(o[i]) > Degree(o[i + 1])
         \/ Degree(o[i]) = Degree(o[i + 1]) /\ o[i] < o[i + 1]

\* C17: on every graph, what get_vertices_sorted_by_degree returns, and the
\* ordering a degree-descending trial scans, is a permutation of [0, N) with
\* non-increasing degrees and ascending ids among equal degrees.
C17_DegreeSorted ==
    /\ DegreeDescending(get_vertices_sorted_by_degree(adj_list_))
    /\ strategy = "degree" => DegreeDescending(vertex_order)

\* a degree trial on a graph where the sort moved vertex 0 from the front and
\* two vertices of equal degree follow each other
C17_Witness ==
    /\ strategy = "degree"
    /\ scan_pc = "returned"
    /\ vertex_order[1] # 0
    /\ \E i \in 1..(Len(vertex_order) - 1) :
         Degree(vertex_order[i]) = Degree(vertex_order[i + 1])

\* a degree-descending trial has visited its whole ordering
DegreeScanComplete ==
    /\ strategy = "degree"
    /\ scan_pc = "scan"
    /\ pos > Len(vertex_order)

\* C18: the degree-descending trials run on one graph all have the same
\* ordering and the same clique, element by element: a later execution ends
\* with exactly what the earlier one returned; the sort has one possible
\* outcome, so the trial consumes no randomness, and it is the ordering and the
\* clique the drivers' baseline trial computes from the graph alone.
C18_DegreeDeterministic ==
    /\ Cardinality(degree_runs) <= 1
    /\ (DegreeScanComplete /\ degree_runs # {}) => <<vertex_order, clique>> \in degree_runs
    /\ Cardinality(degree_sort_outcomes(adj_list_)) = 1
    /\ degree_runs \subseteq
         {<<get_vertices_sorted_by_degree(adj_list_), degree_order_clique(adj_list_)>>}

\* a second execution on a graph with equal degrees has finished its scan
C18_Witness ==
    /\ DegreeScanComplete
    /\ degree_runs # {}
    /\ Len(clique) = 2
    /\ \E v \in Vertices, w \in Vertices : v # w /\ Degree(v) = Degree(w)

\* C19: on the graph with vertices 0..3 and edges 0-1, 0-2, 1-2, 2-3 the
\* degree-descending order is 2, 0, 1, 3; the scan of it accepts 2, then 0,
\* then 1, rejects 3 and returns the clique {0, 1, 2} of size 3.
C19_ScenarioA ==
    adj_list_ = ScenarioA =>
        /\ get_vertices_sorted_by_degree(adj_list_) = <<2, 0, 1, 3>>
        /\ find_greedy_max_clique(adj_list_, <<2, 0, 1, 3>>) = <<2, 0, 1>>
        /\ strategy = "degree" =>
              /\ vertex_order = <<2, 0, 1, 3>>
              /\ pos = 1 => clique = <<>>
              /\ pos = 2 => clique = <<2>>
              /\ pos = 3 => clique = <<2, 0>>
              /\ pos = 4 => clique = <<2, 0, 1>>
              /\ pos = 5 => clique = <<2, 0, 1>>
              /\ scan_pc = "returned" =>
                    (pos = 5 /\ Range(clique) = {0, 1, 2} /\ Len(clique) = 3)

C19_Witness ==
    /\ adj_list_ = ScenarioA
    /\ strategy = "degree"
    /\ scan_pc = "returned"
    /\ clique = <<2, 0, 1>>

\* C20: on the graph with five vertices and no edge, the trial of every
\* strategy (degree-descending, uniform-random, weighted-noisy, restricted to
\* the neighbours of any seed) returns a clique of exactly one vertex: the
\* first of its ordering, or the seed.
C20_ScenarioB ==
    (adj_list_ = ScenarioB /\ scan_pc = "returned") =>
        /\ strategy \in {"degree", "shuffle", "weighted", "neighbourhood"}
        /\ Len(clique) = 1
        /\ strategy = "neighbourhood" => (vertex_order = <<>> /\ seed_vertex = {clique[1]})
        /\ strategy # "neighbourhood" => (Len(vertex_order) = 5 /\ clique[1] = vertex_order[1])

\* the noisy order put vertex 4 first and the trial returned it alone
C20_Witness ==
    /\ adj_list_ = ScenarioB
    /\ scan_pc = "returned"
    /\ strategy = "weighted"
    /\ clique = <<4>>

\* ------------------------------------------------------------ Scenario C
\* C21: on the complete graph with six vertices every trial (the degree order,
\* every shuffle, every noisy order, every neighbourhood trial with any seed)
\* accepts each vertex it visits and returns a clique of size exactly 6 that
\* contains all six vertices.
C21_ScenarioC ==
    adj_list_ = ScenarioC =>
        /\ scan_pc = "scan" =>
              clique = SubSeq(vertex_order, 1, pos - 1)
        /\ scan_pc = "returned" =>
              /\ Len(clique) = 6
              /\ Range(clique) = 0 .. 5

\* a neighbourhood trial on the complete graph has returned
C21_Witness ==
    /\ adj_list_ = ScenarioC
    /\ scan_pc = "returned"
    /\ strategy = "neighbourhood"
    /\ seed_vertex = {3}
    /\ Len(clique) = 6

\* ------------------------------------------------- neighbourhood trials
\* C22: in a neighbourhood trial with seed s the scan only ever holds
\* neighbours of s, and the clique the trial hands over ends with s, so it
\* contains s and every other member is a neighbour of s.
C22_SeedCorrect ==
    \A s \in seed_vertex :
        /\ in_range(adj_list_, s)
        /\ scan_pc = "scan" => Range(clique) \subseteq get_neighbors(adj_list_, s)
        /\ scan_pc = "returned" =>
              /\ Len(clique) >= 1
              /\ clique[Len(clique)] = s
              /\ \A i \in 1..Len(clique) :
                    clique[i] # s => clique[i] \in get_neighbors(adj_list_, s)

\* a trial seeded at vertex 1 returned two neighbours of 1 and the seed
C22_Witness ==
    /\ scan_pc = "returned"
    /\ seed_vertex = {1}
    /\ Len(clique) = 3
    /\ Range(clique) = {0, 1, 2}
    /\ ~ is_adjacent(adj_list_, 1, 1)

\* ------------------------------------------------------------ add_edge
Symmetric(adj) ==
    \A u \in DOMAIN adj, v \in DOMAIN adj : (v \in adj[u]) <=> (u \in adj[v])

\* C23: after any sequence of add_edge calls, with arguments inside or outside
\* [0, N), v is in the neighbour set of u iff u is in the neighbour set of v,
\* for all u, v in [0, N); and whatever the next call's arguments are, it
\* leaves the graph symmetric.
C23_Symmetric ==
    /\ Symmetric(adj_list_)
    /\ \A u \in DOMAIN adj_list_ : adj_list_[u] \subseteq DOMAIN adj_list_
    /\ scan_pc = "build" =>
          \A u \in EdgeArgs, v \in EdgeArgs : Symmetric(add_edge(adj_list_, u, v))

\* the edges 0-1 and 0-2 have been added, nothing else
C23_Witness ==
    /\ scan_pc = "build"
    /\ adj_list_[0] = {1, 2}
    /\ adj_list_[1] = {0}
    /\ adj_list_[2] = {0}

SameDegrees(a, b) == \A w \in DOMAIN a : get_degree(a, w) = get_degree(b, w)

\* C24: from any graph add_edge calls can build, calling add_edge(u, v) a
\* second time leaves every neighbour set and every degree as the first call
\* left them, add_edge(u, v) and add_edge(v, u) give the same graph, and two
\* calls give the same graph in either order (so a set of edges gives the
\* same graph in any insertion order).
C24_IdempotentCommutative ==
    scan_pc = "build" =>
        \A u \in EdgeArgs, v \in EdgeArgs :
            LET once == add_edge(adj_list_, u, v)
            IN  /\ add_edge(once, u, v) = once
                /\ SameDegrees(add_edge(once, u, v), once)
                /\ add_edge(adj_list_, v, u) = once
                /\ \A x \in EdgeArgs, y \in EdgeArgs :
                      add_edge(once, x, y)
                          = add_edge(add_edge(adj_list_, x, y), u, v)

\* the edge 0-1 is in the graph, so a call add_edge(0, 1) or add_edge(1, 0)
\* is a second insertion, and 1-2 is not, so add_edge(1, 2) is a first one
C24_Witness ==
    /\ scan_pc = "build"
    /\ is_adjacent(adj_list_, 0, 1)
    /\ is_adjacent(adj_list_, 1, 0)
    /\ ~ is_adjacent(adj_list_, 1, 2)

\* ------------------------------------------------------ input errors
\* C25: an edge insertion with an endpoint outside [0, N) is reported: a load
\* that met such an edge line does not return as if the line were absent, it
\* ends with an error or leaves a message on std::cerr.
C25_OutOfRangeReported ==
    (load_pc = "loaded" /\ ignored # {}) => cerr # {}

\* C26: get_degree and get_neighbors fail with an out-of-range condition when
\* their argument is outside [0, N); they do not return 0 or an empty list
\* for it.
C26_QueriesFail ==
    \A a \in answer :
        ~ in_range(adj_list_, a.arg) => a.outcome = "out_of_range"

\* C27: a file with no p line, or with a p line whose vertex count cannot be
\* read, makes the load fatal: the process exits before the Graph object is
\* constructed, no trial is emplaced and nothing is reported.
C27_BadHeaderFatal ==
    header \in {"missing", "unreadable"} =>
        /\ load_pc \in {"check", "exited"}
        /\ adj_list_ = <<>>
        /\ phase = "Idle"
        /\ pc = <<>>
        /\ reported = {}

\* C28: after a successful load of a graph with at least one vertex, every
\* run of every program variant ends with a best clique of size >= 1, on an
\* edgeless graph too.
C28_NonEmptyResult ==
    (get_num_vertices(adj_list_) >= 1 /\ reported # {}) =>
        /\ Len(best_clique) >= 1
        /\ reported # {0}

\* ------------------------------------------------------ the loader
\* the edge lines read so far are all "e u v" or "u v" with ids in 1..N
WellFormedLines ==
    \A l \in data_lines :
        /\ l.kind \in {"e", "bare"}
        /\ l.u >= 1 /\ l.u <= num_vertices
        /\ l.v >= 1 /\ l.v <= num_vertices

\* the unordered pairs of 0-based vertices the edge lines stand for
FileEdges == {{l.u - 1, l.v - 1} : l \in data_lines}

\* the unordered pairs an adjacency file holds
RowEdges(rows) ==
    UNION {{{i, rows[i][k]} : k \in 1..Len(rows[i])} : i \in DOMAIN rows}

\* C29: for a file with a readable header count N whose edge lines "e u v"
\* or "u v" all have 1 <= u, v <= N, the loaded graph has N vertices and its
\* edges are exactly the unordered pairs {u-1, v-1} of the edge lines
\* (a repeated line adds nothing, skipped lines add nothing), and every way
\* of writing the adjacency out row by row holds the same unordered pairs.
C29_LoaderEdgeSet ==
    (load_pc \in {"edges", "loaded"} /\ header = "ok" /\ WellFormedLines) =>
        /\ get_num_vertices(adj_list_) = num_vertices
        /\ \A a \in DOMAIN adj_list_, b \in DOMAIN adj_list_ :
              is_adjacent(adj_list_, a, b) <=> {a, b} \in FileEdges
        /\ load_pc = "loaded" =>
              \A rows \in save_to_file_adj_list(adj_list_) :
                  RowEdges(rows) = FileEdges

\* the file "p N=3", "e 1 2", "2 1" has been loaded: one edge, 0-1
C29_Witness ==
    /\ load_pc = "loaded"
    /\ header = "ok"
    /\ num_vertices = 3
    /\ data_lines = {[kind |-> "e", u |-> 1, v |-> 2],
                     [kind |-> "bare", u |-> 2, v |-> 1]}
    /\ adj_list_[0] = {1}
    /\ adj_list_[1] = {0}
    /\ adj_list_[2] = {}

\* C30: no graph the text loader builds, whatever its edge lines are (two
\* equal ids, the id 0), and no graph the random generator builds has a
\* vertex in its own neighbour set.
C30_NoSelfLoops == NoSelfLoops(adj_list_)

\* ------------------------------------------------------ cost of a scan
\* the clique find_greedy_max_clique itself hands back (a neighbourhood
\* trial appends its seed afterwards)
ScanClique ==
    IF scan_pc = "returned" /\ seed_vertex # {}
    THEN SubSeq(clique, 1, Len(clique) - 1)
    ELSE clique

\* C35: the number of is_adjacent calls one greedy scan has made is at most
\* the number of vertices visited times the size of its clique; when it
\* returns, at most |ordering| times the size of the clique it returns.
C35_CheckBound ==
    /\ scan_pc = "scan" => adj_checks <= (pos - 1) * Len(clique)
    /\ scan_pc = "returned" => adj_checks <= Len(vertex_order) * Len(ScanClique)

\* a scan of three vertices returned two of them after two calls: one that
\* accepted the second vertex and one that rejected the third at its first
\* comparison
C35_Witness ==
    /\ scan_pc = "returned"
    /\ seed_vertex = {}
    /\ Len(vertex_order) = 3
    /\ Len(clique) = 2
    /\ adj_checks = 2

\* ------------------------------------------------------ distinct members
\* C40: the clique a trial offers holds no vertex twice (its size is the
\* number of distinct vertices in it), and in a neighbourhood trial the seed
\* occurs exactly once in it, on every graph add_edge calls can build.
C40_DistinctMembers ==
    (scan_pc = "returned" /\ strategy \in {"degree", "neighbourhood"}) =>
        /\ Cardinality(Range(clique)) = Len(clique)
        /\ \A s \in seed_vertex :
              Cardinality({i \in 1..Len(clique) : clique[i] = s}) = 1

IndexOf(o, v) == CHOOSE i \in 1..Len(o) : o[i] = v

\* the score the last weighted sort gave to candidate v
Score(v) == degrees[v] + trial_noise[v]

\* C34: the ordering of a weighted trial holds every candidate once, every
\* noise lies within the width on either side of zero, the scores do not
\* increase along the ordering, and a candidate whose degree exceeds
\* another's by more than twice the width comes before it.
C34_WeightedNoisy ==
    strategy = "weighted" =>
        LET cands == DOMAIN trial_noise
        IN /\ Len(vertex_order) = Cardinality(cands)
           /\ Range(vertex_order) = cands
           /\ \A v \in cands :
                 trial_noise[v] >= 0 - NoiseWidth /\ trial_noise[v] <= NoiseWidth
           /\ \A i \in 1..Len(vertex_order), j \in 1..Len(vertex_order) :
                 i < j => Score(vertex_order[i]) >= Score(vertex_order[j])
           /\ \A u \in cands, v \in cands :
                 degrees[u] - degrees[v] > 2 * NoiseWidth =>
                     IndexOf(vertex_order, u) < IndexOf(vertex_order, v)

\* a candidate of degree 101 drew the lowest noise, one of degree 0 the
\* highest, a third one of degree 100 tied with the latter
C34_Witness ==
    /\ strategy = "weighted"
    /\ degrees = (0 :> 101 @@ 1 :> 0 @@ 2 :> 100)
    /\ DOMAIN trial_noise = DOMAIN degrees
    /\ trial_noise[0] = 0 - NoiseWidth
    /\ trial_noise[1] = NoiseWidth
    /\ trial_noise[2] = 0 - NoiseWidth
    /\ vertex_order = <<0, 2, 1>>

\* the pairs the generator has drawn for so far
DrawnPairs == {<<draw_log[k][1], draw_log[k][2]>> : k \in 1..Len(draw_log)}

\* the pairs whose draw was below the edge probability
LowDraws ==
    {<<draw_log[k][1], draw_log[k][2]>> :
        k \in {l \in 1..Len(draw_log) : draw_log[l][3] < edge_probability}}

\* C31: the generator draws for pairs (i, j) with 0 <= i < j < N only and for
\* no pair twice; the graph holds the edge {i, j} exactly for the pairs whose
\* draw was below the edge probability; when it returns it has drawn once
\* for every pair, N(N-1)/2 times in all; probability 0 leaves the graph
\* edgeless and probability 1 makes it complete.
C31_RandomGraph ==
    gen_pc \in {"loop", "done"} =>
        LET n == get_num_vertices(adj_list_)
        IN /\ \A e \in DrawnPairs : 0 <= e[1] /\ e[1] < e[2] /\ e[2] < n
           /\ Cardinality(DrawnPairs) = Len(draw_log)
           /\ \A u \in DOMAIN adj_list_, v \in DOMAIN adj_list_ :
                 v \in adj_list_[u] <=>
                     (<<u, v>> \in LowDraws \/ <<v, u>> \in LowDraws)
           /\ gen_pc = "done" =>
                 /\ 2 * Len(draw_log) = n * (n - 1)
                 /\ edge_probability = 0 => adj_list_ = new_graph(n)
                 /\ edge_probability = 100 =>
                       \A u \in DOMAIN adj_list_ :
                           adj_list_[u] = DOMAIN adj_list_ \ {u}

\* the generator has returned a graph of three vertices with one edge: of its
\* three draws against probability one half, one was below it and one equal
C31_Witness ==
    /\ gen_pc = "done"
    /\ edge_probability = 50
    /\ draw_log = <<<<0, 1, 50>>, <<0, 2, 0>>, <<1, 2, 99>>>>
    /\ adj_list_ = (0 :> {2} @@ 1 :> {} @@ 2 :> {0})

\* the list the last writer of best_clique put there: nothing, the driver's
\* degree-order clique, or the clique of the trial that assigned last
Offered ==
    IF best_owner = {} THEN <<>>
    ELSE IF best_owner = {Driver} THEN degree_order_clique(adj_list_)
    ELSE local_clique[CHOOSE t \in best_owner : TRUE]

\* C36 as stated: in every state of a run best_clique is, element by element,
\* its initial value or the clique one trial offered.
C36_BestIsOneList == best_clique = Offered

\* C36: best_clique is its initial value or the whole clique of one trial,
\* element by element, until the driver has printed its size; in the programs
\* that then sort it in place it is that same clique in ascending order; it
\* is pairwise adjacent throughout.
C36_BestIntegrity ==
    /\ best_clique = IF reported # {} /\ variant \in SortingVariants
                     THEN SortedClique(Offered) ELSE Offered
    /\ IsClique(adj_list_, best_clique)

\* the driver has sorted the clique a trial had offered in another order
C36_Witness ==
    /\ reported # {}
    /\ best_owner # {}
    /\ best_owner # {Driver}
    /\ Len(best_clique) >= 2
    /\ best_clique # Offered

\* the tasks whose lambda returned at the comparison before the lock
RejectedUnlocked ==
    {t \in DOMAIN pc : pc[t] = "done" /\ t \notin Range(lock_order)}

\* C37: in the program with the atomic max_size, whenever the mutex is free
\* max_size is the size of best_clique; max_size never decreases; once the
\* run is over no candidate that was turned away by the comparison before the
\* lock is larger than best_clique.
C37_AtomicDoubleCheck ==
    /\ [](variant = "hybrid" =>
            /\ mtx = {} => max_size = Len(best_clique)
            /\ phase = "Collected" =>
                  \A t \in RejectedUnlocked :
                      Len(local_clique[t]) <= Len(best_clique))
    /\ [][max_size' >= max_size]_vars

\* the run of the atomic program is over: a trial stored size 2 and a later
\* trial with a candidate of that size was turned away before the lock
C37_Witness ==
    /\ variant = "hybrid"
    /\ phase = "Collected"
    /\ max_size = 2
    /\ \E t \in RejectedUnlocked : Len(local_clique[t]) = 2

\* C39: when the run of the exhaustive neighbourhood program is over, there
\* were exactly N tasks, task i ran once with vertex i as its seed and offered
\* the seed on top of the greedy clique inside the seed's neighbours taken in
\* non-increasing degree, and the size of best_clique is the largest size
\* any of them offered.
C39_ExhaustiveMax ==
    (variant = "nbr_all" /\ phase = "Collected") =>
        /\ DOMAIN pc = 1 .. get_num_vertices(adj_list_)
        /\ \A t \in DOMAIN pc :
              /\ runs[t] = 1
              /\ trial_seed[t] = {t - 1}
              /\ trial_order[t] \in
                    subset_orders(adj_list_, get_neighbors(adj_list_, t - 1))
              /\ local_clique[t] =
                    Append(find_greedy_max_clique(adj_list_, trial_order[t]), t - 1)
        /\ Len(best_clique) = MaxOf({Len(local_clique[t]) : t \in DOMAIN pc})

\* C32: the number of random engines initialised in a run is at most the
\* number of workers, and no two trials that are executing at the same time
\* draw from the same engine.
C32_EnginePerWorker ==
    /\ engine_inits <= workers
    /\ \A t \in busy(pc), u \in busy(pc) :
          (t # u /\ t \in DOMAIN engine_of /\ u \in DOMAIN engine_of) =>
              engine_of[t] \cap engine_of[u] = {}

\* C38: every experiment starts with an empty best_clique and no task of an
\* earlier one; a size is recorded, and the next experiment begun, only when
\* every task of the current one has returned; the size recorded is that of
\* the current best_clique, which only a task of the current experiment or
\* the start of the next one changes; one size is recorded per experiment
\* and recorded sizes stay as they are.
C38_ExperimentsIsolated ==
    /\ [](phase = "Idle" => (best_clique = <<>> /\ pc = <<>> /\ mtx = {}))
    /\ [](Len(results) = experiment + (IF reported # {} THEN 1 ELSE 0))
    /\ [](reported # {} =>
             (all_done(pc) /\ results[Len(results)] = Len(best_clique)))
    /\ [][experiment' # experiment =>
             (all_done(pc) /\ Len(results) = experiment + 1)]_vars
    /\ [][best_clique' # best_clique =>
             \/ experiment' # experiment
             \/ \E t \in DOMAIN pc :
                   pc[t] = "assign" /\ runs[t] = 1 /\ best_clique' = local_clique[t]]_vars
    /\ [][\A k \in 1..Len(results) :
             Len(results') >= k /\ results'[k] = results[k]]_vars

\* the second experiment has recorded a smaller size than the first
C38_Witness ==
    /\ experiment = 1
    /\ reported # {}
    /\ results = <<2, 1>>

====
